---- MODULE Spec2Model ----
(***************************************************************************)
(* Model of BetaBernoulliMAB (src/BernoulliMAB.py): the grid posterior     *)
(* (init_approx, update_approx), the grid estimator IR_approx, the         *)
(* sampling estimator computeIDS, and the round loops IDS_approx,          *)
(* IDS_sample and VIDS_sample, run one after another on one object.        *)
(* Floating point numbers are modelled by exact rationals <<n, d>>.        *)
(***************************************************************************)
EXTENDS Integers, Sequences, FiniteSets

VARIABLES flag, optimal_arm,          \* object fields (self.flag, self.optimal_arm)
          pc, method, T, t,           \* which entry point runs, its horizon and round
          prior1, prior2,             \* the caller's beta1, beta2 (copied, never written)
          beta1, beta2,               \* the run's Beta parameters
          Sa, Na, reward, arm_sequence,
          X, f, F, G, B,              \* grid variant
          p_star,                     \* grid variant: last p_star
          thetas, Maap, p_a,          \* sampling variant
          calls                       \* estimator calls (IR_approx / computeIDS) in this run

vars == <<flag, optimal_arm, pc, method, T, t, prior1, prior2, beta1, beta2,
          Sa, Na, reward, arm_sequence, X, f, F, G, B, p_star, thetas, Maap, p_a, calls>>

----------------------------------------------------------------------------
(* Bounds *)
NbArms == 2
MaxT == 3
GridN == 2
M == 100
TolN == 100
MaxUpdSum == 3

(* Program constants *)
ThresholdNum == 99
ThresholdDen == 100
NoneArm == -1

Arms == 0 .. (NbArms - 1)
PriorValues == {1, 2}

----------------------------------------------------------------------------
(* Exact rational arithmetic standing for the float arithmetic of numpy *)
RECURSIVE GCD(_, _)
GCD(a, b) == IF b = 0 THEN a ELSE GCD(b, a % b)

Abs(n) == IF n < 0 THEN -n ELSE n

Norm(n, d) ==
    LET g == GCD(Abs(n), Abs(d))
        s == IF d < 0 THEN -1 ELSE 1
    IN  IF n = 0 THEN <<0, 1>> ELSE <<s * (n \div g), s * (d \div g)>>

RInt(n) == <<n, 1>>
Zero == RInt(0)
One == RInt(1)

RAdd(x, y) ==
    LET g == GCD(x[2], y[2])
    IN  Norm(x[1] * (y[2] \div g) + y[1] * (x[2] \div g), (x[2] \div g) * y[2])

RNeg(x) == <<-x[1], x[2]>>
RSub(x, y) == RAdd(x, RNeg(y))

RMul(x, y) ==
    LET g1 == GCD(Abs(x[1]), y[2])
        g2 == GCD(Abs(y[1]), x[2])
    IN  IF x[1] = 0 \/ y[1] = 0 THEN Zero
        ELSE <<(x[1] \div g1) * (y[1] \div g2), (x[2] \div g2) * (y[2] \div g1)>>

\* x / y; numpy yields nan or inf for y = 0 and goes on, modelled as 0 (nan_to_num)
RDiv(x, y) == IF y[1] = 0 THEN Zero ELSE RMul(x, Norm(y[2], y[1]))

RLt(x, y) == RSub(x, y)[1] < 0
RLe(x, y) == RSub(x, y)[1] <= 0
RAbs(x) == <<Abs(x[1]), x[2]>>

RECURSIVE RPow(_, _)
RPow(x, n) == IF n = 0 THEN One ELSE RMul(x, RPow(x, n - 1))

threshold == Norm(ThresholdNum, ThresholdDen)

----------------------------------------------------------------------------
(* numpy helpers on rows (sequences over 1..n) and per-arm vectors *)
\* np.cumsum of a row of n entries, summed by halves to keep the recursion shallow
RECURSIVE cumsum_range(_, _, _)
cumsum_range(row, lo, hi) ==
    IF lo = hi THEN <<row[lo]>>
    ELSE LET mid == (lo + hi) \div 2
             L == cumsum_range(row, lo, mid)
             R == cumsum_range(row, mid + 1, hi)
         IN  L \o [j \in 1 .. Len(R) |-> RAdd(L[Len(L)], R[j])]

cumsum(row, n) == cumsum_range(row, 1, n)

\* .sum() of a row of n entries
RECURSIVE sum_range(_, _, _)
sum_range(row, lo, hi) ==
    IF lo = hi THEN row[lo]
    ELSE LET mid == (lo + hi) \div 2
         IN  RAdd(sum_range(row, lo, mid), sum_range(row, mid + 1, hi))

RowSum(row, n) == sum_range(row, 1, n)

\* np.max over a per-arm vector
RECURSIVE MaxUpTo(_, _)
MaxUpTo(p, a) ==
    IF a = 0 THEN p[0]
    ELSE LET m == MaxUpTo(p, a - 1) IN IF RLt(m, p[a]) THEN p[a] ELSE m

np_max(p) == MaxUpTo(p, NbArms - 1)

\* np.argmax: the first index holding the maximum
np_argmax(p) ==
    CHOOSE a \in Arms : /\ p[a] = np_max(p)
                        /\ \A b \in Arms : b < a => p[b] # np_max(p)

----------------------------------------------------------------------------
(* Grid posterior: init_approx and update_approx *)
RECURSIVE fact(_)
fact(n) == IF n = 0 THEN 1 ELSE n * fact(n - 1)

linspace(N) == [k \in 1 .. N |-> Norm(k, N)]

\* the Beta density X^(b1-1) (1-X)^(b2-1) / B on the grid
density(N, a, b, Bi) ==
    [k \in 1 .. N |->
        RDiv(RMul(RPow(Norm(k, N), a - 1), RPow(Norm(N - k, N), b - 1)), Bi)]

init_approx(N, beta_1, beta_2) ==
    LET Bv == [i \in Arms |->
                  Norm(fact(beta_1[i] - 1) * fact(beta_2[i] - 1),
                       fact(beta_1[i] + beta_2[i] - 1))]
        Xv == linspace(N)
        fv == [i \in Arms |-> density(N, beta_1[i], beta_2[i], Bv[i])]
        Fv == [i \in Arms |->
                  cumsum([k \in 1 .. N |-> RDiv(fv[i][k], RInt(N))], N)]
        Gv == [i \in Arms |->
                  cumsum([k \in 1 .. N |-> RDiv(RMul(fv[i][k], Xv[k]), RInt(N))], N)]
    IN  [X |-> Xv, f |-> fv, F |-> Fv, G |-> Gv, B |-> Bv]

\* X**beta[0] * (1.-X)**beta[1] at one grid point
boundary(x, beta) == RMul(RPow(x, beta[1]), RPow(RSub(One, x), beta[2]))

\* the four assignments of update_approx, for the one row `arm`
update_row(y, beta, Xg, frow, Frow, Grow, Brow) ==
    LET N == Len(Xg)
        bsum == RInt(beta[1] + beta[2])
        adjust == RInt(beta[1] * y + beta[2] * (1 - y))
        sign_F_update == IF y = 0 THEN One ELSE RInt(-1)
    IN  [f |-> [k \in 1 .. N |->
                  RMul(RDiv(RMul(RAdd(RMul(Xg[k], RInt(y)),
                                      RMul(RSub(One, Xg[k]), RInt(1 - y))),
                                 bsum), adjust),
                       frow[k])],
         G |-> [k \in 1 .. N |->
                  RMul(RDiv(RInt(beta[1]), bsum),
                       RSub(Frow[k],
                            RDiv(RDiv(boundary(Xg[k], beta), RInt(beta[1])), Brow)))],
         F |-> [k \in 1 .. N |->
                  RAdd(Frow[k],
                       RMul(sign_F_update,
                            RDiv(RDiv(boundary(Xg[k], beta), adjust), Brow)))],
         B |-> RDiv(RMul(Brow, adjust), bsum)]

\* a variant that rebinds the whole arrays instead of the row `arm`
update_approx_all_rows(arm, y, beta, Xg, fg, Fg, Gg, Bg) ==
    LET r == [i \in Arms |-> update_row(y, beta, Xg, fg[i], Fg[i], Gg[i], Bg[i])]
    IN  [f |-> [i \in Arms |-> r[i].f], F |-> [i \in Arms |-> r[i].F],
         G |-> [i \in Arms |-> r[i].G], B |-> [i \in Arms |-> r[i].B]]

update_approx(arm, y, beta, Xg, fg, Fg, Gg, Bg) ==
    LET r == update_row(y, beta, Xg, fg[arm], Fg[arm], Gg[arm], Bg[arm])
    IN  [f |-> [fg EXCEPT ![arm] = r.f], F |-> [Fg EXCEPT ![arm] = r.F],
         G |-> [Gg EXCEPT ![arm] = r.G], B |-> [Bg EXCEPT ![arm] = r.B]]

----------------------------------------------------------------------------
(* Grid estimator IR_approx *)
\* a variant of the inner test that forgets `app != ap`
in_product_no_ap(a, ap, app) == a # app

\* line 77: whether F[app] is multiplied into prod_F1[a, ap]
in_product(a, ap, app) == a # app /\ app # ap

\* the inner loop over app = 0 .. nb_arms-1 at one grid point, from ones
RECURSIVE prod_loop(_, _, _, _, _)
prod_loop(a, ap, app, Fg, k) ==
    IF app < 0 THEN One
    ELSE LET before == prod_loop(a, ap, app - 1, Fg, k)
         IN  IF in_product(a, ap, app) THEN RMul(before, Fg[app][k]) ELSE before

prod_F1(N, a, ap, fg, Fg) ==
    [k \in 1 .. N |->
        RMul(prod_loop(a, ap, NbArms - 1, Fg, k), RDiv(fg[a][k], RInt(N)))]

\* delta needs b1, b2; g is built from logarithms and is left to IDSAction
IR_approx(N, b1, b2, Xg, fg, Fg, Gg) ==
    LET ps == [a \in Arms |-> RowSum(prod_F1(N, a, a, fg, Fg), N)]
        mp == [ap \in Arms |-> [a \in Arms |->
                 LET pr == prod_F1(N, a, ap, fg, Fg)
                 IN  IF a # ap
                     THEN RDiv(RowSum([k \in 1 .. N |-> RMul(pr[k], Gg[ap][k])], N), ps[a])
                     ELSE RDiv(RowSum([k \in 1 .. N |-> RMul(pr[k], Xg[k])], N), ps[a])]]
    IN  [p_star |-> ps, maap |-> mp]

----------------------------------------------------------------------------
(* Sampling estimator computeIDS *)
\* the sample banks np.random.beta may return: M draws, in units of 1/3, high on
\* all draws but the last or high on the upper half only
Banks == {[i \in 1 .. M |-> IF i < M THEN 2 ELSE 1],
          [i \in 1 .. M |-> IF i > M \div 2 THEN 2 ELSE 1]}

\* np.argmax(thetas, axis=0): per draw, the first arm holding the column's maximum
theta_hat(th) ==
    [i \in 1 .. M |->
        CHOOSE a \in Arms :
            \A b \in Arms : th[b][i] < th[a][i] \/ (th[b][i] = th[a][i] /\ a <= b)]

\* a variant attributing a draw to every arm that reaches its maximum
where_optimal_ties(th, hat, a) == {i \in 1 .. M : th[a][i] = th[hat[i]][i]}

\* np.where(theta_hat == a)
where_optimal(th, hat, a) == {i \in 1 .. M : hat[i] = a}

\* the sum of the draws selected by S, value by value
RECURSIVE SumValues(_, _, _)
SumValues(row, S, V) ==
    IF V = {} THEN 0
    ELSE LET v == CHOOSE w \in V : TRUE
         IN  v * Cardinality({i \in S : row[i] = v}) + SumValues(row, S, V \ {v})

SumOver(row, S) == SumValues(row, S, {row[i] : i \in S})

\* np.nan_to_num(np.mean(t)): 0 for an empty selection
nan_mean(row, S) == IF S = {} THEN Zero ELSE Norm(SumOver(row, S), Cardinality(S))

\* a variant testing the threshold strictly
compute_locks_strict(p) == RLt(threshold, np_max(p))

\* line 225: np.max(p_a) >= self.threshold
compute_locks(p) == RLe(threshold, np_max(p))

\* lines 218-224 once theta_hat and the np.where selections are known
attribute(th, w) ==
    [p_a |-> [a \in Arms |-> Norm(Cardinality(w[a]), M)],
     Maap |-> [ap \in Arms |-> [a \in Arms |-> nan_mean(th[ap], w[a])]]]

\* lines 216-227: Maap, p_a and, over the threshold, the new optimal_arm
\* (each intermediate array is bound once, as the code computes it once)
computeIDS(th, oa) ==
    CHOOSE res \in
        { [p_a |-> e.p_a, Maap |-> e.Maap, locked |-> compute_locks(e.p_a),
           optimal_arm |-> IF compute_locks(e.p_a) THEN np_argmax(e.p_a) ELSE oa] :
          e \in { attribute(th, w) :
                  w \in { [a \in Arms |-> where_optimal(th, hat, a)] :
                          hat \in {theta_hat(th)} } } } : TRUE

----------------------------------------------------------------------------
(* External collaborators of the round loop *)
\* ArmBernoulli.sample: rand(1) < p, stored in the float array as 0. or 1.
sample == {0, 1}

\* IDSAction(delta, g) and rd_argmax(...): some arm index, ties broken at random
IDSAction == Arms

zeros == [a \in Arms |-> 0]
rzeros == [a \in Arms |-> Zero]

\* A length-T result array (reward, arm_sequence). The loops only write it, at
\* index t, and read back the entry just written: the model keeps its length, the
\* number of entries written, and the index and value written last.
new_array(Tn) == [len |-> Tn, written |-> 0, at |-> 0, val |-> 0]

store(arr, i, v) == [len |-> arr.len, written |-> arr.written + 1, at |-> i, val |-> v]

\* init_lists(T): Sa, Na per arm and reward, arm_sequence of length T, all zero
init_lists(Tn) ==
    [Sa |-> zeros, Na |-> zeros, reward |-> new_array(Tn), arm_sequence |-> new_array(Tn)]

\* update_lists(t, arm, Sa, Na, reward, arm_sequence) with the drawn reward r
update_lists(tn, arm, r, SaL, NaL, rewardL, armL) ==
    [Sa |-> [SaL EXCEPT ![arm] = @ + r], Na |-> [NaL EXCEPT ![arm] = @ + 1],
     reward |-> store(rewardL, tn, r), arm_sequence |-> store(armL, tn, arm)]

----------------------------------------------------------------------------
(* The round loops *)
\* a variant iterating one round short
range_short(Tn) == 0 .. (Tn - 2)

\* for t in range(T)
range(Tn) == 0 .. (Tn - 1)

\* a variant that estimates again once locked
branch_no_exploit(fl, locks) ==
    IF locks /\ ~fl THEN "lock" ELSE "estimate"

\* the if / else ladder of a round (lines 143-152, 248-255, 270-277)
branch(fl, locks) ==
    IF ~fl THEN (IF locks THEN "lock" ELSE "estimate") ELSE "exploit"

\* line 144: np.max(p_star) > self.threshold
approx_locks(p) == RLt(threshold, np_max(p))

\* lines 249, 271: np.max(p_a) >= self.threshold
sample_locks(p) == RLe(threshold, np_max(p))

\* a variant adding the reward to both parameters
beta_update_both(b1, b2, arm, r) ==
    [beta1 |-> [b1 EXCEPT ![arm] = @ + r], beta2 |-> [b2 EXCEPT ![arm] = @ + r]]

\* beta1[arm] += reward[t]; beta2[arm] += 1-reward[t]
beta_update(b1, b2, arm, r) ==
    [beta1 |-> [b1 EXCEPT ![arm] = @ + r], beta2 |-> [b2 EXCEPT ![arm] = @ + (1 - r)]]

\* the priors a caller passes to IDS_approx: one Beta(a, b) for every arm
Priors == {[i \in Arms |-> v] : v \in PriorValues}

objVars == <<flag, optimal_arm>>
gridVars == <<X, f, F, G, B, p_star>>
sampleVars == <<thetas, Maap, p_a>>

NoGrid ==
    /\ X = << >> /\ f = << >> /\ F = << >> /\ G = << >> /\ B = << >> /\ p_star = rzeros

NoSample ==
    /\ thetas = << >> /\ Maap = << >> /\ p_a = rzeros

\* the locals of the other variant do not exist in a run
ClearGrid ==
    /\ X' = << >> /\ f' = << >> /\ F' = << >> /\ G' = << >> /\ B' = << >>
    /\ p_star' = rzeros

ClearSample ==
    /\ thetas' = << >> /\ Maap' = << >> /\ p_a' = rzeros

\* __init__ (lines 6-11)
Init ==
    /\ flag = FALSE /\ optimal_arm = NoneArm
    /\ pc = "idle" /\ method = "none" /\ T = 0 /\ t = 0
    /\ prior1 = zeros /\ prior2 = zeros /\ beta1 = zeros /\ beta2 = zeros
    /\ Sa = zeros /\ Na = zeros /\ reward = new_array(0) /\ arm_sequence = new_array(0)
    /\ NoGrid /\ NoSample
    /\ calls = 0

\* an entry point is called on an object no call is running on
CanStart == pc = "idle"

StartCommon(m, Tn) ==
    /\ CanStart
    /\ pc' = "loop" /\ method' = m /\ T' = Tn /\ t' = 0
    /\ Sa' = init_lists(Tn).Sa /\ Na' = init_lists(Tn).Na
    /\ reward' = init_lists(Tn).reward /\ arm_sequence' = init_lists(Tn).arm_sequence
    /\ calls' = 0
    /\ UNCHANGED objVars

\* IDS_approx, lines 138-141
Start_IDS_approx ==
    \E Tn \in 1 .. MaxT, b1 \in Priors, b2 \in Priors :
        LET g == init_approx(GridN, b1, b2)
        IN  /\ StartCommon("IDS_approx", Tn)
            /\ prior1' = b1 /\ prior2' = b2 /\ beta1' = b1 /\ beta2' = b2
            /\ X' = g.X /\ f' = g.f /\ F' = g.F /\ G' = g.G /\ B' = g.B
            /\ p_star' = rzeros
            /\ ClearSample

StartSample(m) ==
    \E Tn \in 1 .. MaxT, th \in [Arms -> Banks] :
        /\ StartCommon(m, Tn)
        /\ prior1' = [a \in Arms |-> 1] /\ prior2' = [a \in Arms |-> 1]
        /\ beta1' = [a \in Arms |-> 1] /\ beta2' = [a \in Arms |-> 1]
        /\ thetas' = th
        /\ Maap' = [ap \in Arms |-> rzeros] /\ p_a' = rzeros
        /\ ClearGrid

\* IDS_sample, lines 242-246
Start_IDS_sample == StartSample("IDS_sample")

\* VIDS_sample, lines 264-268
Start_VIDS_sample == StartSample("VIDS_sample")

\* the tail of a round: update_lists, then the Beta parameters
Pull(arm, r) ==
    LET l == update_lists(t, arm, r, Sa, Na, reward, arm_sequence)
        b == beta_update(beta1, beta2, arm, r)
    IN  /\ Sa' = l.Sa /\ Na' = l.Na /\ reward' = l.reward
        /\ arm_sequence' = l.arm_sequence
        /\ beta1' = b.beta1 /\ beta2' = b.beta2
        /\ t' = t + 1 /\ pc' = "loop"

\* update_lists raises on an arm of None: the call ends with the exception
Raise ==
    /\ pc' = "raised"
    /\ UNCHANGED <<t, beta1, beta2, Sa, Na, reward, arm_sequence>>

\* one iteration of the loop of IDS_approx, lines 142-166
Round_IDS_approx ==
    /\ pc = "loop" /\ method = "IDS_approx" /\ t \in range(T)
    /\ LET br == branch(flag, approx_locks(p_star))
           ir == IR_approx(GridN, beta1, beta2, X, f, F, G)
       IN  /\ flag' = (flag \/ br = "lock")
           /\ optimal_arm' = IF br = "lock" THEN np_argmax(p_star) ELSE optimal_arm
           /\ p_star' = IF br = "estimate" THEN ir.p_star ELSE p_star
           /\ calls' = IF br = "estimate" THEN calls + 1 ELSE calls
           /\ \E arm \in (IF br = "estimate" THEN IDSAction ELSE {optimal_arm'}),
                 r \in sample :
                 IF arm \in Arms
                 THEN LET u == update_approx(arm, r, <<beta1[arm], beta2[arm]>>,
                                             X, f, F, G, B)
                      IN  /\ Pull(arm, r)
                          /\ f' = u.f /\ F' = u.F /\ G' = u.G /\ B' = u.B
                          /\ X' = X
                 ELSE /\ Raise
                      /\ UNCHANGED <<X, f, F, G, B>>
    /\ UNCHANGED <<method, T, prior1, prior2, sampleVars>>

\* one iteration of the loop of IDS_sample / VIDS_sample, lines 247-259, 269-281
SampleRound(m) ==
    /\ pc = "loop" /\ method = m /\ t \in range(T)
    /\ \E br \in {branch(flag, sample_locks(p_a))} :
       \E c \in {IF br = "estimate" THEN computeIDS(thetas, optimal_arm)
                 ELSE [p_a |-> p_a, Maap |-> Maap, locked |-> TRUE,
                       optimal_arm |-> optimal_arm]} :
           /\ flag' = (flag \/ br = "lock")
           /\ optimal_arm' = c.optimal_arm
           /\ p_a' = c.p_a
           /\ Maap' = c.Maap
           /\ calls' = IF br = "estimate" THEN calls + 1 ELSE calls
           /\ \E arm \in (IF br = "estimate" /\ ~c.locked THEN IDSAction
                          ELSE {c.optimal_arm}),
                 r \in sample, bank \in Banks :
                 IF arm \in Arms
                 THEN /\ Pull(arm, r)
                      /\ thetas' = [thetas EXCEPT ![arm] = bank]
                 ELSE /\ Raise
                      /\ UNCHANGED thetas
    /\ UNCHANGED <<method, T, prior1, prior2, gridVars>>

Round_IDS_sample == SampleRound("IDS_sample")

Round_VIDS_sample == SampleRound("VIDS_sample")

\* return reward, arm_sequence: the call's other locals end with it
Return ==
    /\ pc = "loop" /\ t \notin range(T)
    /\ pc' = "returned"
    /\ prior1' = zeros /\ prior2' = zeros /\ beta1' = zeros /\ beta2' = zeros
    /\ Sa' = zeros /\ Na' = zeros
    /\ ClearGrid /\ ClearSample
    /\ UNCHANGED <<flag, optimal_arm, method, T, t, reward, arm_sequence, calls>>

\* the caller is done with the returned arrays (or the exception): the object is
\* all that is left of the call
Release ==
    /\ pc \in {"returned", "raised"}
    /\ pc' = "idle" /\ method' = "none" /\ T' = 0 /\ t' = 0 /\ calls' = 0
    /\ prior1' = zeros /\ prior2' = zeros /\ beta1' = zeros /\ beta2' = zeros
    /\ Sa' = zeros /\ Na' = zeros
    /\ reward' = new_array(0) /\ arm_sequence' = new_array(0)
    /\ ClearGrid /\ ClearSample
    /\ UNCHANGED objVars

Next ==
    \/ Start_IDS_approx
    \/ Start_IDS_sample
    \/ Start_VIDS_sample
    \/ Round_IDS_approx
    \/ Round_IDS_sample
    \/ Round_VIDS_sample
    \/ Return
    \/ Release

Spec == Init /\ [][Next]_vars

----------------------------------------------------------------------------
(* The grid update on its own: init_approx at TolN points, then update_approx *)
GridPriors == {b \in [Arms -> PriorValues] : TRUE}

InitUpdate ==
    \E b1 \in GridPriors, b2 \in GridPriors :
        LET g == init_approx(TolN, b1, b2)
        IN  /\ flag = FALSE /\ optimal_arm = NoneArm
            /\ pc = "grid" /\ method = "none" /\ T = 0 /\ t = 0
            /\ prior1 = b1 /\ prior2 = b2 /\ beta1 = b1 /\ beta2 = b2
            /\ Sa = zeros /\ Na = zeros
            /\ reward = new_array(0) /\ arm_sequence = new_array(0)
            /\ X = g.X /\ f = g.f /\ F = g.F /\ G = g.G /\ B = g.B
            /\ p_star = rzeros
            /\ NoSample
            /\ calls = 0

\* lines 154-156 and 166 for an observed reward y on `arm`
Update_approx_step ==
    /\ pc = "grid"
    /\ \E arm \in Arms, y \in sample :
        /\ beta1[arm] + beta2[arm] <= MaxUpdSum
        /\ LET u == update_approx(arm, y, <<beta1[arm], beta2[arm]>>, X, f, F, G, B)
               b == beta_update(beta1, beta2, arm, y)
           IN  /\ f' = u.f /\ F' = u.F /\ G' = u.G /\ B' = u.B
               /\ beta1' = b.beta1 /\ beta2' = b.beta2
               /\ Na' = [Na EXCEPT ![arm] = @ + 1] /\ Sa' = [Sa EXCEPT ![arm] = @ + y]
    /\ UNCHANGED <<flag, optimal_arm, pc, method, T, t, prior1, prior2, reward,
                   arm_sequence, X, p_star, thetas, Maap, p_a, calls>>

NextUpdate == Update_approx_step

SpecUpdate == InitUpdate /\ [][NextUpdate]_vars

----------------------------------------------------------------------------
(* Properties *)
Sampling == method \in {"IDS_sample", "VIDS_sample"}

RECURSIVE SumArms(_, _)
SumArms(v, a) == IF a < 0 THEN 0 ELSE v[a] + SumArms(v, a - 1)

RECURSIVE RSumArms(_, _)
RSumArms(v, a) == IF a < 0 THEN Zero ELSE RAdd(v[a], RSumArms(v, a - 1))

\* the optimality-probability vector the running variant computed last
last_p == IF method = "IDS_approx" THEN p_star ELSE p_a

\* C1: once flag is true, every later round of the run keeps optimal_arm, pulls
\* exactly optimal_arm and calls neither IR_approx nor computeIDS.
C1_LockInMonotone ==
    [][(pc = "loop" /\ t \in range(T) /\ flag) =>
          /\ t' = t + 1 /\ pc' = "loop"
          /\ flag' /\ optimal_arm' = optimal_arm
          /\ arm_sequence'.at = t /\ arm_sequence'.val = optimal_arm
          /\ calls' = calls]_vars

\* a run of IDS_approx that estimated once, locked in round 1 and pulled the
\* locked arm again in round 2
C1_Witness ==
    /\ pc = "loop" /\ method = "IDS_approx" /\ flag
    /\ calls = 1 /\ t = 3 /\ arm_sequence.val = optimal_arm

\* a/b <= c/e for a, c >= 0 and b, e > 0, by the continued fractions
RECURSIVE FracLe(_, _, _, _)
FracLe(a, b, c, e) ==
    IF a \div b # c \div e THEN a \div b < c \div e
    ELSE IF a % b = 0 THEN TRUE
    ELSE IF c % e = 0 THEN FALSE
    ELSE FracLe(e, c % e, b, a % b)

\* q + r/b times 10^n, as a whole part and a remainder over b
RECURSIVE ScaleUp(_, _, _, _)
ScaleUp(q, r, b, n) ==
    IF n = 0 THEN <<q, r>>
    ELSE LET q2 == 2 * q + ((2 * r) \div b)
             r2 == (2 * r) % b
         IN  ScaleUp(5 * q2 + ((5 * r2) \div b), (5 * r2) % b, b, n - 1)

\* |u - s| <= 1e-6 * |s|
Close(u, s) ==
    LET d == RAbs(RSub(u, s))
        m == ScaleUp(d[1] \div d[2], d[1] % d[2], d[2], 6)
        a == RAbs(s)
    IN  IF m[1] # a[1] \div a[2] THEN m[1] < a[1] \div a[2]
        ELSE FracLe(m[2], d[2], a[1] % a[2], a[2])

RowsClose(u, s) == \A k \in 1 .. Len(s) : Close(u[k], s[k])

\* C2: after update_approx the rows f, F, G and the constant B of every arm match,
\* within 1e-6 relative, what init_approx gives for the post-update parameters
\* (grid of TolN >= 100 points).
C2_IncrementalMatchesScratch ==
    pc = "grid" =>
        LET g == init_approx(TolN, beta1, beta2)
        IN  \A a \in Arms :
                /\ RowsClose(f[a], g.f[a]) /\ Close(B[a], g.B[a])
                /\ RowsClose(F[a], g.F[a]) /\ RowsClose(G[a], g.G[a])

\* C3: a round changes the posterior state of the pulled arm only: for every
\* other arm beta1, beta2, the grid rows f, F, G, B (grid variant) and the sample
\* row thetas (sampling variant) stay as they were, and the grid X never changes.
C3_ArmLocal ==
    [][(pc = "loop" /\ t' = t + 1) =>
          \E arm \in Arms :
              /\ arm_sequence'.val = arm
              /\ X' = X
              /\ \A a \in Arms \ {arm} :
                    /\ beta1'[a] = beta1[a] /\ beta2'[a] = beta2[a]
                    /\ method = "IDS_approx" =>
                          /\ f'[a] = f[a] /\ F'[a] = F[a]
                          /\ G'[a] = G[a] /\ B'[a] = B[a]
                    /\ Sampling => thetas'[a] = thetas[a]]_vars

\* after one round of IDS_approx that pulled arm 0, whose rows now differ from the
\* untouched rows of arm 1
C3_Witness ==
    /\ pc = "loop" /\ method = "IDS_approx" /\ t = 1 /\ Na[0] = 1
    /\ prior1[0] = prior1[1] /\ prior2[0] = prior2[1]
    /\ f[0] # f[1] /\ F[0] # F[1] /\ B[0] # B[1]

\* C4: a call with horizon T runs rounds t = 0 .. T-1 in order, each with one
\* update_lists call and one posterior update, locked or not, never raises, and
\* returns reward and arm_sequence of length T.
C4_ExactlyTRounds ==
    /\ pc # "raised"
    /\ pc = "loop" =>
          /\ t \in 0 .. T
          /\ reward.written = t /\ arm_sequence.written = t
          /\ t > 0 => reward.at = t - 1 /\ arm_sequence.at = t - 1
          /\ SumArms(Na, NbArms - 1) = t
          /\ SumArms(beta1, NbArms - 1) + SumArms(beta2, NbArms - 1)
               = SumArms(prior1, NbArms - 1) + SumArms(prior2, NbArms - 1) + t
    /\ pc = "returned" =>
          /\ t = T
          /\ reward.len = T /\ arm_sequence.len = T
          /\ reward.written = T /\ arm_sequence.written = T

\* a call of the longest horizon that locked in on the way and returned
C4_Witness ==
    /\ pc = "returned" /\ T = MaxT /\ flag /\ calls > 0 /\ calls < T

\* C5: every call starts unlocked and computes the information ratio in its
\* first round.
C5_StartsUnlocked ==
    pc = "loop" => /\ t = 0 => ~flag
                   /\ t = 1 => calls = 1

\* C6: in every round and for every arm beta1 > 0 and beta2 > 0; each pull adds
\* the reward to beta1 and one minus the reward to beta2, so the parameters are
\* the priors plus the successes and failures of the arm, pulls after lock-in
\* included.
C6_BetaState ==
    pc = "loop" =>
        \A a \in Arms :
            /\ beta1[a] > 0 /\ beta2[a] > 0
            /\ beta1[a] = prior1[a] + Sa[a]
            /\ beta2[a] = prior2[a] + (Na[a] - Sa[a])
            /\ beta1[a] + beta2[a] = prior1[a] + prior2[a] + Na[a]

\* the locked arm was pulled after lock-in, with a success and a failure
C6_Witness ==
    /\ pc = "loop" /\ flag /\ calls = 1 /\ t = 3
    /\ Na[optimal_arm] >= 2
    /\ Sa[optimal_arm] > 0 /\ Sa[optimal_arm] < Na[optimal_arm]

\* C7: after computeIDS every draw is attributed to exactly one arm: the values
\* M * p_a[a] are non-negative integers summing to M and p_a sums to 1, ties
\* between arms included.
C7_DrawsPartitioned ==
    (pc = "loop" /\ Sampling /\ calls > 0) =>
        /\ RSumArms(p_a, NbArms - 1) = One
        /\ \A a \in Arms : /\ RMul(RInt(M), p_a[a])[2] = 1
                           /\ RMul(RInt(M), p_a[a])[1] >= 0
        /\ SumArms([a \in Arms |-> RMul(RInt(M), p_a[a])[1]], NbArms - 1) = M

\* computeIDS has run on banks that tie on some draws and split the others
C7_Witness ==
    /\ pc = "loop" /\ method = "IDS_sample" /\ calls = 1 /\ t = 1
    /\ p_a[0] # Zero /\ p_a[1] # Zero

\* C8: a run locks only when the last optimality-probability vector has a
\* maximum strictly above the threshold, and locks to its argmax.
C8_LocksOnlyAbove ==
    [][(pc = "loop" /\ ~flag /\ flag') =>
          /\ RLt(threshold, np_max(last_p))
          /\ optimal_arm' = np_argmax(last_p)]_vars

RECURSIVE SetProd(_, _, _)
SetProd(S, Fg, k) ==
    IF S = {} THEN One
    ELSE LET a == CHOOSE b \in S : TRUE IN RMul(Fg[a][k], SetProd(S \ {a}, Fg, k))

C10_OptimalArmSet ==
    /\ pc # "raised"
    /\ flag => optimal_arm \in Arms
    /\ (pc = "loop" /\ t > 0) => arm_sequence.val \in Arms

\* IDS_sample locked on the arm computeIDS had set one round before
C10_Witness ==
    /\ pc = "loop" /\ method = "IDS_sample" /\ flag /\ calls = 1 /\ t = 2
    /\ arm_sequence.val = optimal_arm /\ optimal_arm \in Arms

====
